---- MODULE Spec2Model ----
(***************************************************************************)
(* The point-stream assembler CSVTemporalPointReader of                    *)
(* src/src/io/trajectory_reader.cpp and the batch readers of               *)
(* ITrajectoryReader, as a state machine; after it the whole-row reader    *)
(* CSVTrajectoryReader and the dataset reader GDALTrajectoryReader.        *)
(*                                                                         *)
(* A text line is a sequence of one-character strings, a file a sequence   *)
(* of newline-terminated lines whose first line is the header.  The input  *)
(* stream ifs is the number of lines already extracted, the two ios state  *)
(* bits the code depends on and whether the file is open.                  *)
(***************************************************************************)
EXTENDS Integers, Sequences, FiniteSets, TLC

VARIABLES file, status, id_idx, x_idx, y_idx, time_idx, ifs, prev_line, ret,
          hist, reader, geom_idx, gdal

vars == <<file, status, id_idx, x_idx, y_idx, time_idx, ifs, prev_line, ret,
          hist, reader, geom_idx, gdal>>

\* ------------------------------------------------------------------ bounds
\* most data rows in a file
MaxRows == 3
\* largest N handed to read_next_N_trajectories
MaxN == 2
\* most calls recorded in the call log of SpecLog
MaxLog == 4

\* ------------------------------------------------------------------ text
\* the field delimiter member `delim` of the readers
Delim == ","

\* the value of time_idx (and of every index) when no header token matched
NotFound == -1

Digits == {"0", "1", "2", "5"}

DigitVal(c) == CASE c = "0" -> 0 [] c = "1" -> 1 [] c = "2" -> 2 [] OTHER -> 5

\* the constructor arguments id_name, x_name, y_name, time_name
id_name == <<"i">>
x_name == <<"x">>
y_name == <<"y">>
time_name == <<"t">>

\* index of the first Delim in s, 0 when there is none
FirstDelim(s) ==
  LET S == {k \in 1..Len(s) : s[k] = Delim}
  IN IF S = {} THEN 0 ELSE CHOOSE k \in S : \A j \in S : k <= j

\* while (std::getline(ss, intermediate, delim)): the fields of a line.  The
\* loop ends as soon as the stream holds no further character, so nothing is
\* produced for what follows a final delimiter.
RECURSIVE Tokenize(_)
Tokenize(s) ==
  IF s = <<>> THEN <<>>
  ELSE LET k == FirstDelim(s)
       IN IF k = 0 THEN <<s>>
          ELSE <<SubSeq(s, 1, k - 1)>> \o Tokenize(SubSeq(s, k + 1, Len(s)))

\* the longest prefix of s made of digits
RECURSIVE NumPrefix(_)
NumPrefix(s) ==
  IF s = <<>> \/ s[1] \notin Digits THEN <<>>
  ELSE <<s[1]>> \o NumPrefix(Tail(s))

RECURSIVE Decimal(_)
Decimal(s) ==
  IF s = <<>> THEN 0
  ELSE 10 * Decimal(SubSeq(s, 1, Len(s) - 1)) + DigitVal(s[Len(s)])

\* std::stoi: converts the leading numeral and ignores what follows it;
\* throws std::invalid_argument when there is no leading numeral
Stoi(s) == [ok |-> NumPrefix(s) # <<>>, v |-> Decimal(NumPrefix(s))]

\* a conversion that reports no failure (as atof does)
StofLenient(s) == [ok |-> TRUE, v |-> Decimal(NumPrefix(s))]

\* std::stof, on the same alphabet
Stof(s) == [ok |-> NumPrefix(s) # <<>>, v |-> Decimal(NumPrefix(s))]

\* ------------------------------------------------------------------ stream
Good(f) == ~f.eofbit /\ ~f.failbit

\* ifs.peek(): [eof, ifs].  A stream that is not good() gets failbit from the
\* sentry; a good one with nothing left to read gets eofbit.
Peek(f) ==
  IF ~Good(f) THEN [eof |-> TRUE, ifs |-> [f EXCEPT !.failbit = TRUE]]
  ELSE IF ~f.is_open \/ f.pos >= Len(file)
       THEN [eof |-> TRUE, ifs |-> [f EXCEPT !.eofbit = TRUE]]
       ELSE [eof |-> FALSE, ifs |-> f]

\* std::getline(ifs, line): [line, ifs].  When the sentry fails the string is
\* left as it was; at end of input it is erased and eofbit, failbit are set.
Getline(f, line) ==
  IF ~Good(f) THEN [line |-> line, ifs |-> [f EXCEPT !.failbit = TRUE]]
  ELSE IF ~f.is_open \/ f.pos >= Len(file)
       THEN [line |-> <<>>, ifs |-> [f EXCEPT !.eofbit = TRUE, !.failbit = TRUE]]
       ELSE [line |-> file[f.pos + 1], ifs |-> [f EXCEPT !.pos = f.pos + 1]]

\* ------------------------------------------------------------------ reader
\* the header loop with a break after the first match
HeaderIndexFirst(toks, name) ==
  LET S == {k \in 1..Len(toks) : toks[k] = name}
  IN IF S = {} THEN NotFound
     ELSE (CHOOSE k \in S : \A j \in S : k <= j) - 1

\* the index the header loop leaves for `name`: every matching token
\* overwrites the index, so the last match stays; NotFound without a match
HeaderIndex(toks, name) ==
  LET S == {k \in 1..Len(toks) : toks[k] = name}
  IN IF S = {} THEN NotFound
     ELSE (CHOOSE k \in S : \A j \in S : j <= k) - 1

\* the test without its last disjunct
MissingRequiredNoY(i, x, y) == i < 0 \/ x < 0

\* if (id_idx<0 || x_idx<0 || y_idx<0) ... std::exit(EXIT_FAILURE)
MissingRequired(i, x, y) == i < 0 \/ x < 0 \/ y < 0

has_time_stamp == time_idx # NotFound

\* a test that extracts a line to find out whether one is left
HasNextFeatureGetline(f) ==
  [value |-> Good(Getline(f, <<>>).ifs), ifs |-> Getline(f, <<>>).ifs]

\* CSVTemporalPointReader::has_next_feature on stream f: [value, ifs]
HasNextFeature(f) == [value |-> ~Peek(f).eof, ifs |-> Peek(f).ifs]

NoRet ==
  [op |-> "none", kind |-> "void", id |-> 0, points |-> <<>>,
   timestamps |-> <<>>, list |-> <<>>, flag |-> FALSE]

\* the state of a reader that operators thread through: stream and buffer
Cur == [ifs |-> ifs, prev_line |-> prev_line]

\* the pending record or else the next line of the source: [line, s]
NextLine(s, line) ==
  IF s.prev_line = <<>>
  THEN LET g == Getline(s.ifs, line)
       IN [line |-> g.line, s |-> [s EXCEPT !.ifs = g.ifs]]
  ELSE [line |-> s.prev_line, s |-> [s EXCEPT !.prev_line = <<>>]]

\* the field loop of read_next_trajectory: id, x, y by schema index; a
\* conversion that throws ends the loop at once
RECURSIVE ParseFields(_, _, _)
ParseFields(toks, index, acc) ==
  IF index >= Len(toks) \/ ~acc.ok THEN acc
  ELSE LET f == toks[index + 1]
           a1 == IF index = id_idx
                 THEN [acc EXCEPT !.ok = Stoi(f).ok, !.id = Stoi(f).v]
                 ELSE acc
           a2 == IF a1.ok /\ index = x_idx
                 THEN [a1 EXCEPT !.ok = Stof(f).ok, !.x = Stof(f).v]
                 ELSE a1
           a3 == IF a2.ok /\ index = y_idx
                 THEN [a2 EXCEPT !.ok = Stof(f).ok, !.y = Stof(f).v]
                 ELSE a2
       IN ParseFields(toks, index + 1, a3)

\* the field loop of read_next_temporal_trajectory: the time field as well
RECURSIVE ParseTemporalFields(_, _, _)
ParseTemporalFields(toks, index, acc) ==
  IF index >= Len(toks) \/ ~acc.ok THEN acc
  ELSE LET f == toks[index + 1]
           a1 == IF index = id_idx
                 THEN [acc EXCEPT !.ok = Stoi(f).ok, !.id = Stoi(f).v]
                 ELSE acc
           a2 == IF a1.ok /\ index = x_idx
                 THEN [a1 EXCEPT !.ok = Stof(f).ok, !.x = Stof(f).v]
                 ELSE a1
           a3 == IF a2.ok /\ index = y_idx
                 THEN [a2 EXCEPT !.ok = Stof(f).ok, !.y = Stof(f).v]
                 ELSE a2
           a4 == IF a3.ok /\ index = time_idx
                 THEN [a3 EXCEPT !.ok = Stof(f).ok, !.timestamp = Stof(f).v]
                 ELSE a3
       IN ParseTemporalFields(toks, index + 1, a4)

\* int id = 0; double x=0,y=0; double timestamp = 0;
Record0 == [ok |-> TRUE, id |-> 0, x |-> 0, y |-> 0, timestamp |-> 0]

\* the locals of a read_next_* call on entry
Locals0 ==
  [geom |-> <<>>, timestamps |-> <<>>, on_same_trajectory |-> TRUE,
   first_observation |-> TRUE, prev_id |-> -1, line |-> <<>>]

\* the step without the first_observation test: a record is added only when
\* its id equals prev_id
AssembleStepNoFirst(loc, line, rec) ==
  LET add == loc.prev_id = rec.id
      same == IF loc.prev_id # rec.id /\ ~loc.first_observation
              THEN FALSE ELSE loc.on_same_trajectory
  IN [geom |-> IF add THEN Append(loc.geom, <<rec.x, rec.y>>) ELSE loc.geom,
      timestamps |-> loc.timestamps,
      on_same_trajectory |-> same,
      first_observation |-> FALSE,
      prev_id |-> rec.id,
      line |-> line]

\* the step with prev_id assigned for the records it adds only
AssembleStepKeepsId(loc, line, rec) ==
  LET add == loc.prev_id = rec.id \/ loc.first_observation
      same == IF loc.prev_id # rec.id /\ ~loc.first_observation
              THEN FALSE ELSE loc.on_same_trajectory
  IN [geom |-> IF add THEN Append(loc.geom, <<rec.x, rec.y>>) ELSE loc.geom,
      timestamps |-> loc.timestamps,
      on_same_trajectory |-> same,
      first_observation |-> FALSE,
      prev_id |-> IF add THEN rec.id ELSE loc.prev_id,
      line |-> line]

\* the body of the while loop of read_next_trajectory after the record was
\* parsed: the locals and the pending buffer it leaves
AssembleStep(loc, line, rec) ==
  LET add == loc.prev_id = rec.id \/ loc.first_observation
      same == IF loc.prev_id # rec.id /\ ~loc.first_observation
              THEN FALSE ELSE loc.on_same_trajectory
  IN [geom |-> IF add THEN Append(loc.geom, <<rec.x, rec.y>>) ELSE loc.geom,
      timestamps |-> loc.timestamps,
      on_same_trajectory |-> same,
      first_observation |-> FALSE,
      prev_id |-> rec.id,
      line |-> line]

\* the temporal step with the timestamp pushed for every record parsed, the
\* look-ahead record too
AssembleTemporalStepEveryRecord(loc, line, rec) ==
  LET add == loc.prev_id = rec.id \/ loc.first_observation
      same == IF loc.prev_id # rec.id /\ ~loc.first_observation
              THEN FALSE ELSE loc.on_same_trajectory
  IN [geom |-> IF add THEN Append(loc.geom, <<rec.x, rec.y>>) ELSE loc.geom,
      timestamps |-> IF time_idx # NotFound
                     THEN Append(loc.timestamps, rec.timestamp)
                     ELSE loc.timestamps,
      on_same_trajectory |-> same,
      first_observation |-> FALSE,
      prev_id |-> rec.id,
      line |-> line]

\* the same, of read_next_temporal_trajectory
AssembleTemporalStep(loc, line, rec) ==
  LET add == loc.prev_id = rec.id \/ loc.first_observation
      same == IF loc.prev_id # rec.id /\ ~loc.first_observation
              THEN FALSE ELSE loc.on_same_trajectory
  IN [geom |-> IF add THEN Append(loc.geom, <<rec.x, rec.y>>) ELSE loc.geom,
      timestamps |-> IF add /\ has_time_stamp
                     THEN Append(loc.timestamps, rec.timestamp)
                     ELSE loc.timestamps,
      on_same_trajectory |-> same,
      first_observation |-> FALSE,
      prev_id |-> rec.id,
      line |-> line]

\* if (!on_same_trajectory) prev_line = line;
KeepPending(s, loc) ==
  IF ~loc.on_same_trajectory THEN [s EXCEPT !.prev_line = loc.line] ELSE s

\* CSVTemporalPointReader::read_next_trajectory from reader state s with
\* locals loc: [kind, id, points, timestamps, s], kind "value" for a returned
\* Trajectory and "throw" for an exception leaving stoi/stof
RECURSIVE ReadLoop(_, _)
ReadLoop(s, loc) ==
  IF ~loc.on_same_trajectory
  THEN [kind |-> "value", id |-> loc.prev_id, points |-> loc.geom,
        timestamps |-> <<>>, s |-> s]
  ELSE LET h == HasNextFeature(s.ifs)
           s1 == [s EXCEPT !.ifs = h.ifs]
       IN IF ~h.value
          THEN [kind |-> "value", id |-> loc.prev_id, points |-> loc.geom,
                timestamps |-> <<>>, s |-> s1]
          ELSE LET n == NextLine(s1, loc.line)
                   rec == ParseFields(Tokenize(n.line), 0, Record0)
               IN IF ~rec.ok
                  THEN [kind |-> "throw", id |-> 0, points |-> <<>>,
                        timestamps |-> <<>>, s |-> n.s]
                  ELSE LET l2 == AssembleStep(loc, n.line, rec)
                       IN ReadLoop(KeepPending(n.s, l2), l2)

read_next_trajectory(s) == ReadLoop(s, Locals0)

\* CSVTemporalPointReader::read_next_temporal_trajectory, likewise
RECURSIVE ReadTemporalLoop(_, _)
ReadTemporalLoop(s, loc) ==
  IF ~loc.on_same_trajectory
  THEN [kind |-> "value", id |-> loc.prev_id, points |-> loc.geom,
        timestamps |-> loc.timestamps, s |-> s]
  ELSE LET h == HasNextFeature(s.ifs)
           s1 == [s EXCEPT !.ifs = h.ifs]
       IN IF ~h.value
          THEN [kind |-> "value", id |-> loc.prev_id, points |-> loc.geom,
                timestamps |-> loc.timestamps, s |-> s1]
          ELSE LET n == NextLine(s1, loc.line)
                   rec == ParseTemporalFields(Tokenize(n.line), 0, Record0)
               IN IF ~rec.ok
                  THEN [kind |-> "throw", id |-> 0, points |-> <<>>,
                        timestamps |-> <<>>, s |-> n.s]
                  ELSE LET l2 == AssembleTemporalStep(loc, n.line, rec)
                       IN ReadTemporalLoop(KeepPending(n.s, l2), l2)

read_next_temporal_trajectory(s) == ReadTemporalLoop(s, Locals0)

Traj(r) == [id |-> r.id, points |-> r.points]

\* the count test i<N of the loop of read_next_N_trajectories
CountBelowOrAt(i, N) == i <= N

CountBelow(i, N) == i < N

\* ITrajectoryReader::read_next_N_trajectories: [kind, list, s].  The loop
\* condition is i<N && has_next_feature(): at i >= N the stream is not asked.
RECURSIVE ReadNLoop(_, _, _, _)
ReadNLoop(s, N, i, trajectories) ==
  IF ~CountBelow(i, N)
  THEN [kind |-> "value", list |-> trajectories, s |-> s]
  ELSE LET h == HasNextFeature(s.ifs)
           s1 == [s EXCEPT !.ifs = h.ifs]
       IN IF ~h.value
          THEN [kind |-> "value", list |-> trajectories, s |-> s1]
          ELSE LET r == read_next_trajectory(s1)
               IN IF r.kind = "throw"
                  THEN [kind |-> "throw", list |-> <<>>, s |-> r.s]
                  ELSE ReadNLoop(r.s, N, i + 1, Append(trajectories, Traj(r)))

read_next_N_trajectories(s, N) == ReadNLoop(s, N, 0, <<>>)

\* ITrajectoryReader::read_all_trajectories: [kind, list, s]
RECURSIVE ReadAllLoop(_, _)
ReadAllLoop(s, trajectories) ==
  LET h == HasNextFeature(s.ifs)
      s1 == [s EXCEPT !.ifs = h.ifs]
  IN IF ~h.value
     THEN [kind |-> "value", list |-> trajectories, s |-> s1]
     ELSE LET r == read_next_trajectory(s1)
          IN IF r.kind = "throw"
             THEN [kind |-> "throw", list |-> <<>>, s |-> r.s]
             ELSE ReadAllLoop(r.s, Append(trajectories, Traj(r)))

read_all_trajectories(s) == ReadAllLoop(s, <<>>)

\* CSVTemporalPointReader::reset_cursor on reader state s
reset_cursor(s) ==
  LET cleared == [s.ifs EXCEPT !.eofbit = FALSE, !.failbit = FALSE]
      sought == IF cleared.is_open THEN [cleared EXCEPT !.pos = 0]
                ELSE [cleared EXCEPT !.failbit = TRUE]
  IN [s EXCEPT !.ifs = Getline(sought, <<>>).ifs]

\* CSVTemporalPointReader::close on reader state s
close(s) ==
  IF s.ifs.is_open THEN [s EXCEPT !.ifs.is_open = FALSE]
  ELSE [s EXCEPT !.ifs.failbit = TRUE]

\* ------------------------------------------------------------------ inputs
HeaderLines ==
  { <<"i", ",", "x", ",", "y", ",", "t">>,
    <<"i", ",", "x", ",", "y">>,
    <<"x", ",", "y", ",", "t">>,
    <<"i", ",", "y", ",", "t">>,
    <<"i", ",", "x", ",", "t">>,
    <<"t", ",", "i">>,
    <<>> }

\* data rows: two well-formed records of id 1 and 2; a record of id 1 whose
\* x is a numeral followed by a letter and whose time is no number; a record
\* whose x is no number; a blank line
RowLines ==
  { <<"1", ",", "0", ",", "0", ",", "1">>,
    <<"1", ",", "1", "a", ",", "1", ",", "a">>,
    <<"2", ",", "5", ",", "5", ",", "5">>,
    <<"2", ",", "a", ",", "2", ",", "2">>,
    <<>> }

RowSeqs(R) == UNION {[1..n -> R] : n \in 0..MaxRows}

Files(H, R) == {<<h>> \o rows : h \in H, rows \in RowSeqs(R)}

\* ------------------------------------------------------------------ actions
\* before the constructor body runs: ifs(e_filename) is open at the start of
\* the file, the indices hold their default, the pending buffer is empty.
\* The members are declared in io/trajectory_reader.hpp; the tests id_idx<0
\* and time_idx!=-1 and prev_line.empty() tell the defaults -1 and "".
NoDataset == [poDS |-> "none", cursor |-> 0, NUM_FEATURES |-> 0]

InitReader ==
  /\ reader = "CSVTemporalPointReader"
  /\ geom_idx = NotFound /\ gdal = NoDataset
  /\ status = "new"
  /\ id_idx = NotFound /\ x_idx = NotFound /\ y_idx = NotFound
  /\ time_idx = NotFound
  /\ ifs = [pos |-> 0, eofbit |-> FALSE, failbit |-> FALSE, is_open |-> TRUE]
  /\ prev_line = <<>>
  /\ ret = NoRet
  /\ hist = <<>>

Init == file \in Files(HeaderLines, RowLines) /\ InitReader

\* CSVTemporalPointReader::CSVTemporalPointReader
Construct ==
  /\ reader = "CSVTemporalPointReader"
  /\ status = "new"
  /\ LET g == Getline(ifs, <<>>)
         toks == Tokenize(g.line)
         i == HeaderIndex(toks, id_name)
         x == HeaderIndex(toks, x_name)
         y == HeaderIndex(toks, y_name)
         t == HeaderIndex(toks, time_name)
     IN /\ ifs' = g.ifs
        /\ id_idx' = i /\ x_idx' = x /\ y_idx' = y /\ time_idx' = t
        /\ status' = IF MissingRequired(i, x, y) THEN "exited" ELSE "ready"
        /\ ret' = [NoRet EXCEPT !.op = "construct",
                     !.kind = IF MissingRequired(i, x, y) THEN "exit" ELSE "void",
                     !.flag = t < 0]
  /\ UNCHANGED <<file, prev_line, reader, geom_idx, gdal>>

\* what no call changes after construction
Schema ==
  <<file, status, id_idx, x_idx, y_idx, time_idx, reader, geom_idx, gdal>>

HasNext ==
  /\ reader = "CSVTemporalPointReader"
  /\ status = "ready"
  /\ ifs' = HasNextFeature(ifs).ifs
  /\ ret' = [NoRet EXCEPT !.op = "has_next_feature",
                          !.flag = HasNextFeature(ifs).value]
  /\ UNCHANGED <<Schema, prev_line>>

HasTimeStamp ==
  /\ reader = "CSVTemporalPointReader"
  /\ status = "ready"
  /\ ret' = [NoRet EXCEPT !.op = "has_time_stamp", !.flag = has_time_stamp]
  /\ UNCHANGED <<Schema, ifs, prev_line>>

ReadNextTrajectory ==
  /\ reader = "CSVTemporalPointReader"
  /\ status = "ready"
  /\ LET r == read_next_trajectory(Cur)
     IN /\ ifs' = r.s.ifs
        /\ prev_line' = r.s.prev_line
        /\ ret' = [NoRet EXCEPT !.op = "read_next_trajectory", !.kind = r.kind,
                                !.id = r.id, !.points = r.points]
  /\ UNCHANGED Schema

ReadNextTemporalTrajectory ==
  /\ reader = "CSVTemporalPointReader"
  /\ status = "ready"
  /\ LET r == read_next_temporal_trajectory(Cur)
     IN /\ ifs' = r.s.ifs
        /\ prev_line' = r.s.prev_line
        /\ ret' = [NoRet EXCEPT !.op = "read_next_temporal_trajectory",
                                !.kind = r.kind, !.id = r.id,
                                !.points = r.points,
                                !.timestamps = r.timestamps]
  /\ UNCHANGED Schema

ReadNextN(N) ==
  /\ reader = "CSVTemporalPointReader"
  /\ status = "ready"
  /\ LET r == read_next_N_trajectories(Cur, N)
     IN /\ ifs' = r.s.ifs
        /\ prev_line' = r.s.prev_line
        /\ ret' = [NoRet EXCEPT !.op = "read_next_N_trajectories",
                                !.kind = r.kind, !.id = N, !.list = r.list]
  /\ UNCHANGED Schema

ReadAll ==
  /\ reader = "CSVTemporalPointReader"
  /\ status = "ready"
  /\ LET r == read_all_trajectories(Cur)
     IN /\ ifs' = r.s.ifs
        /\ prev_line' = r.s.prev_line
        /\ ret' = [NoRet EXCEPT !.op = "read_all_trajectories",
                                !.kind = r.kind, !.list = r.list]
  /\ UNCHANGED Schema

ResetCursor ==
  /\ reader = "CSVTemporalPointReader"
  /\ status = "ready"
  /\ ifs' = reset_cursor(Cur).ifs
  /\ prev_line' = reset_cursor(Cur).prev_line
  /\ ret' = [NoRet EXCEPT !.op = "reset_cursor"]
  /\ UNCHANGED Schema

Close ==
  /\ reader = "CSVTemporalPointReader"
  /\ status = "ready"
  /\ ifs' = close(Cur).ifs
  /\ prev_line' = close(Cur).prev_line
  /\ ret' = [NoRet EXCEPT !.op = "close"]
  /\ UNCHANGED Schema

Next ==
  \/ Construct /\ UNCHANGED hist
  \/ HasNext /\ UNCHANGED hist
  \/ HasTimeStamp /\ UNCHANGED hist
  \/ ReadNextTrajectory /\ UNCHANGED hist
  \/ ReadNextTemporalTrajectory /\ UNCHANGED hist
  \/ \E N \in -1..MaxN : ReadNextN(N) /\ UNCHANGED hist
  \/ ReadAll /\ UNCHANGED hist
  \/ ResetCursor /\ UNCHANGED hist
  \/ Close /\ UNCHANGED hist

Spec == Init /\ [][Next]_vars

\* ------------------------------------------------------------------ call log
\* The same reader driven by a client that constructs it, tests, reads,
\* drains and resets, with every call's outcome appended to the log hist.
GoodHeaders ==
  { <<"i", ",", "x", ",", "y", ",", "t">>,
    <<"i", ",", "x", ",", "y">> }

InitLog == file \in Files(GoodHeaders, RowLines) /\ InitReader

Logged == Len(hist) < MaxLog /\ hist' = Append(hist, ret')

NextLog ==
  \/ Construct /\ Logged
  \/ HasNext /\ Logged
  \/ ReadNextTrajectory /\ Logged
  \/ ReadAll /\ Logged
  \/ ResetCursor /\ Logged

SpecLog == InitLog /\ [][NextLog]_vars

\* ------------------------------------------------------------------ headers
\* The same reader on files whose header is any sequence of up to MaxCols
\* column names, a name repeated or written in the other case included, with
\* no data row or one: a row of four fields or that row with its last field
\* left empty.
MaxCols == 4

HeaderNames == {id_name, x_name, y_name, time_name, <<"X">>}

RECURSIVE Join(_)
Join(names) ==
  IF Len(names) = 1 THEN names[1]
  ELSE names[1] \o <<Delim>> \o Join(Tail(names))

SchemaHeaders ==
  {Join(names) : names \in UNION {[1..n -> HeaderNames] : n \in 1..MaxCols}}

SchemaRows ==
  { <<"1", ",", "2", ",", "5", ",", "0">>,
    <<"1", ",", "2", ",", "5", ",">> }

InitSchema ==
  /\ file \in {<<h>> : h \in SchemaHeaders}
              \cup {<<h, r>> : h \in SchemaHeaders, r \in SchemaRows}
  /\ InitReader

NextSchema ==
  \/ Construct /\ UNCHANGED hist
  \/ HasTimeStamp /\ UNCHANGED hist
  \/ ReadNextTrajectory /\ UNCHANGED hist
  \/ ReadNextTemporalTrajectory /\ UNCHANGED hist

SpecSchema == InitSchema /\ [][NextSchema]_vars

\* ------------------------------------------------------------ whole-row reader
\* CSVTrajectoryReader: a file whose every data row is one trajectory, an id
\* field and a geometry field.  The geometry text is written here as the
\* letter L followed by the coordinates, one digit each, x then y.
geom_name == <<"g">>

\* boost::geometry::read_wkt into a linestring: [ok, points]; text that is
\* no linestring throws
ReadWkt(s) ==
  LET ok == /\ s # <<>> /\ s[1] = "L"
            /\ (Len(s) - 1) % 2 = 0
            /\ \A k \in 2..Len(s) : s[k] \in Digits
  IN [ok |-> ok,
      points |-> IF ok
                 THEN [k \in 1..((Len(s) - 1) \div 2) |->
                         <<DigitVal(s[2 * k]), DigitVal(s[2 * k + 1])>>]
                 ELSE <<>>]

\* int trid = 0; LineString geom;
CSVTrajectoryReader_Record0 == [ok |-> TRUE, trid |-> 0, geom |-> <<>>]

\* the field loop of CSVTrajectoryReader::read_next_trajectory
RECURSIVE CSVTrajectoryReader_ParseFields(_, _, _)
CSVTrajectoryReader_ParseFields(toks, index, acc) ==
  IF index >= Len(toks) \/ ~acc.ok THEN acc
  ELSE LET f == toks[index + 1]
           a1 == IF index = id_idx
                 THEN [acc EXCEPT !.ok = Stoi(f).ok, !.trid = Stoi(f).v]
                 ELSE acc
           a2 == IF a1.ok /\ index = geom_idx
                 THEN [a1 EXCEPT !.ok = ReadWkt(f).ok,
                                 !.geom = ReadWkt(f).points]
                 ELSE a1
       IN CSVTrajectoryReader_ParseFields(toks, index + 1, a2)

\* CSVTrajectoryReader::read_next_trajectory on stream f: [kind, id, points,
\* ifs].  One getline into a fresh string, whatever the stream's state.
CSVTrajectoryReader_read_next_trajectory(f) ==
  LET g == Getline(f, <<>>)
      rec == CSVTrajectoryReader_ParseFields(
               Tokenize(g.line), 0, CSVTrajectoryReader_Record0)
  IN IF rec.ok
     THEN [kind |-> "value", id |-> rec.trid, points |-> rec.geom,
           ifs |-> g.ifs]
     ELSE [kind |-> "throw", id |-> 0, points |-> <<>>, ifs |-> g.ifs]

\* CSVTrajectoryReader::has_next_feature on stream f: [value, ifs]
CSVTrajectoryReader_has_next_feature(f) ==
  [value |-> ~Peek(f).eof, ifs |-> Peek(f).ifs]

\* ITrajectoryReader::read_next_N_trajectories on a CSVTrajectoryReader:
\* [kind, list, ifs]
RECURSIVE CSVTrajectoryReader_ReadNLoop(_, _, _, _)
CSVTrajectoryReader_ReadNLoop(f, N, i, acc) ==
  IF ~CountBelow(i, N) THEN [kind |-> "value", list |-> acc, ifs |-> f]
  ELSE LET h == CSVTrajectoryReader_has_next_feature(f)
       IN IF ~h.value THEN [kind |-> "value", list |-> acc, ifs |-> h.ifs]
          ELSE LET r == CSVTrajectoryReader_read_next_trajectory(h.ifs)
               IN IF r.kind = "throw"
                  THEN [kind |-> "throw", list |-> <<>>, ifs |-> r.ifs]
                  ELSE CSVTrajectoryReader_ReadNLoop(
                         r.ifs, N, i + 1, Append(acc, Traj(r)))

\* ITrajectoryReader::read_all_trajectories on a CSVTrajectoryReader
RECURSIVE CSVTrajectoryReader_ReadAllLoop(_, _)
CSVTrajectoryReader_ReadAllLoop(f, acc) ==
  LET h == CSVTrajectoryReader_has_next_feature(f)
  IN IF ~h.value THEN [kind |-> "value", list |-> acc, ifs |-> h.ifs]
     ELSE LET r == CSVTrajectoryReader_read_next_trajectory(h.ifs)
          IN IF r.kind = "throw"
             THEN [kind |-> "throw", list |-> <<>>, ifs |-> r.ifs]
             ELSE CSVTrajectoryReader_ReadAllLoop(r.ifs, Append(acc, Traj(r)))

\* a reset that seeks to the start and leaves the header to be read
CSVTrajectoryReader_reset_cursor_to_start(f) ==
  LET cleared == [f EXCEPT !.eofbit = FALSE, !.failbit = FALSE]
  IN IF cleared.is_open THEN [cleared EXCEPT !.pos = 0]
     ELSE [cleared EXCEPT !.failbit = TRUE]

\* CSVTrajectoryReader::reset_cursor: clear, seekg, getline of the header
CSVTrajectoryReader_reset_cursor(f) ==
  LET cleared == [f EXCEPT !.eofbit = FALSE, !.failbit = FALSE]
      sought == IF cleared.is_open THEN [cleared EXCEPT !.pos = 0]
                ELSE [cleared EXCEPT !.failbit = TRUE]
  IN Getline(sought, <<>>).ifs

\* CSVTrajectoryReader::close
CSVTrajectoryReader_close(f) ==
  IF f.is_open THEN [f EXCEPT !.is_open = FALSE]
  ELSE [f EXCEPT !.failbit = TRUE]

\* headers with both columns in either order, and one without the geometry
WholeRowHeaders ==
  { <<"i", ",", "g">>, <<"g", ",", "i">>, <<"i">> }

\* data rows: two trajectories, a row whose id is no number, a row whose
\* geometry text is cut short, a blank line
WholeRowLines ==
  { <<"1", ",", "L", "0", "1">>,
    <<"2", ",", "L", "5", "5", "1", "1">>,
    <<"a", ",", "L", "0", "0">>,
    <<"1", ",", "L", "0">>,
    <<>> }

InitWholeRowReader ==
  /\ reader = "CSVTrajectoryReader"
  /\ status = "new"
  /\ id_idx = NotFound /\ geom_idx = NotFound
  /\ x_idx = NotFound /\ y_idx = NotFound /\ time_idx = NotFound
  /\ ifs = [pos |-> 0, eofbit |-> FALSE, failbit |-> FALSE, is_open |-> TRUE]
  /\ prev_line = <<>>
  /\ gdal = NoDataset
  /\ ret = NoRet
  /\ hist = <<>>

\* the rows of the files on which all calls are explored: a trajectory of
\* each id and a row whose id is no number
FewWholeRowLines ==
  { <<"1", ",", "L", "0", "1">>,
    <<"2", ",", "L", "5", "5", "1", "1">>,
    <<"a", ",", "L", "0", "0">> }

InitWholeRow ==
  /\ file \in Files(WholeRowHeaders, FewWholeRowLines)
  /\ InitWholeRowReader

\* CSVTrajectoryReader::CSVTrajectoryReader
WholeRowConstruct ==
  /\ reader = "CSVTrajectoryReader"
  /\ status = "new"
  /\ LET g == Getline(ifs, <<>>)
         toks == Tokenize(g.line)
         i == HeaderIndex(toks, id_name)
         gi == HeaderIndex(toks, geom_name)
     IN /\ ifs' = g.ifs
        /\ id_idx' = i /\ geom_idx' = gi
        /\ status' = IF i < 0 \/ gi < 0 THEN "exited" ELSE "ready"
        /\ ret' = [NoRet EXCEPT !.op = "construct",
                     !.kind = IF i < 0 \/ gi < 0 THEN "exit" ELSE "void"]
  /\ UNCHANGED <<file, reader, x_idx, y_idx, time_idx, prev_line, gdal>>

WholeRowHasNext ==
  /\ reader = "CSVTrajectoryReader"
  /\ status = "ready"
  /\ ifs' = CSVTrajectoryReader_has_next_feature(ifs).ifs
  /\ ret' = [NoRet EXCEPT !.op = "has_next_feature",
               !.flag = CSVTrajectoryReader_has_next_feature(ifs).value]
  /\ UNCHANGED <<Schema, prev_line>>

WholeRowReadNextTrajectory ==
  /\ reader = "CSVTrajectoryReader"
  /\ status = "ready"
  /\ LET r == CSVTrajectoryReader_read_next_trajectory(ifs)
     IN /\ ifs' = r.ifs
        /\ ret' = [NoRet EXCEPT !.op = "read_next_trajectory", !.kind = r.kind,
                                !.id = r.id, !.points = r.points]
  /\ UNCHANGED <<Schema, prev_line>>

WholeRowReadNextN(N) ==
  /\ reader = "CSVTrajectoryReader"
  /\ status = "ready"
  /\ LET r == CSVTrajectoryReader_ReadNLoop(ifs, N, 0, <<>>)
     IN /\ ifs' = r.ifs
        /\ ret' = [NoRet EXCEPT !.op = "read_next_N_trajectories",
                                !.kind = r.kind, !.id = N, !.list = r.list]
  /\ UNCHANGED <<Schema, prev_line>>

WholeRowReadAll ==
  /\ reader = "CSVTrajectoryReader"
  /\ status = "ready"
  /\ LET r == CSVTrajectoryReader_ReadAllLoop(ifs, <<>>)
     IN /\ ifs' = r.ifs
        /\ ret' = [NoRet EXCEPT !.op = "read_all_trajectories",
                                !.kind = r.kind, !.list = r.list]
  /\ UNCHANGED <<Schema, prev_line>>

WholeRowResetCursor ==
  /\ reader = "CSVTrajectoryReader"
  /\ status = "ready"
  /\ ifs' = CSVTrajectoryReader_reset_cursor(ifs)
  /\ ret' = [NoRet EXCEPT !.op = "reset_cursor"]
  /\ UNCHANGED <<Schema, prev_line>>

WholeRowClose ==
  /\ reader = "CSVTrajectoryReader"
  /\ status = "ready"
  /\ ifs' = CSVTrajectoryReader_close(ifs)
  /\ ret' = [NoRet EXCEPT !.op = "close"]
  /\ UNCHANGED <<Schema, prev_line>>

NextWholeRow ==
  \/ WholeRowConstruct /\ UNCHANGED hist
  \/ WholeRowHasNext /\ UNCHANGED hist
  \/ WholeRowReadNextTrajectory /\ UNCHANGED hist
  \/ \E N \in -1..MaxN : WholeRowReadNextN(N) /\ UNCHANGED hist
  \/ WholeRowReadAll /\ UNCHANGED hist
  \/ WholeRowResetCursor /\ UNCHANGED hist
  \/ WholeRowClose /\ UNCHANGED hist

\* the whole-row reader driven by a client that constructs it, tests, reads,
\* drains and resets, every call's outcome appended to the log
InitWholeRowLog ==
  /\ file \in Files({<<"i", ",", "g">>}, WholeRowLines)
  /\ InitWholeRowReader

NextWholeRowLog ==
  \/ WholeRowConstruct /\ Logged
  \/ WholeRowHasNext /\ Logged
  \/ WholeRowReadNextTrajectory /\ Logged
  \/ WholeRowReadAll /\ Logged
  \/ WholeRowResetCursor /\ Logged

SpecWholeRowLog == InitWholeRowLog /\ [][NextWholeRowLog]_vars

\* ------------------------------------------------------------ dataset reader
\* GDALTrajectoryReader: the dataset is written as a file too, its first line
\* the attribute fields of the layer (g standing for the geometry) and every
\* further line one feature.  The layer is a linestring layer and the
\* dataset can be opened.  The layer's own read position moves with _cursor
\* (nothing resets either), so gdal.cursor stands for both.
GdalHeaders == { <<"i", ",", "g">>, <<"g">> }

GdalFeatureLines ==
  { <<"1", ",", "L", "0", "1">>,
    <<"2", ",", "L", "5", "5", "1", "1">> }

\* int trid = ogrFeature->GetFieldAsInteger(id_idx); ogr2linestring(...)
GdalFeature(line) ==
  LET toks == Tokenize(line)
      g == HeaderIndex(Tokenize(file[1]), geom_name)
  IN [id |-> Decimal(NumPrefix(toks[id_idx + 1])),
      points |-> ReadWkt(toks[g + 1]).points]

InitGdal ==
  /\ file \in Files(GdalHeaders, GdalFeatureLines)
  /\ reader = "GDALTrajectoryReader"
  /\ status = "new"
  /\ id_idx = NotFound /\ geom_idx = NotFound
  /\ x_idx = NotFound /\ y_idx = NotFound /\ time_idx = NotFound
  /\ ifs = [pos |-> 0, eofbit |-> FALSE, failbit |-> FALSE, is_open |-> FALSE]
  /\ prev_line = <<>>
  /\ gdal = NoDataset
  /\ ret = NoRet
  /\ hist = <<>>

\* GDALTrajectoryReader::GDALTrajectoryReader
GdalConstruct ==
  /\ reader = "GDALTrajectoryReader"
  /\ status = "new"
  /\ LET i == HeaderIndex(Tokenize(file[1]), id_name)
     IN /\ id_idx' = i
        /\ gdal' = [poDS |-> IF i < 0 THEN "closed" ELSE "open",
                    cursor |-> 0, NUM_FEATURES |-> Len(file) - 1]
        /\ status' = IF i < 0 THEN "exited" ELSE "ready"
        /\ ret' = [NoRet EXCEPT !.op = "construct",
                     !.kind = IF i < 0 THEN "exit" ELSE "void"]
  /\ UNCHANGED <<file, reader, geom_idx, x_idx, y_idx, time_idx, ifs,
                 prev_line>>

\* GDALTrajectoryReader::has_next_feature
GdalHasNext ==
  /\ reader = "GDALTrajectoryReader"
  /\ status = "ready"
  /\ ret' = [NoRet EXCEPT !.op = "has_next_feature",
                          !.flag = gdal.cursor < gdal.NUM_FEATURES]
  /\ UNCHANGED <<Schema, ifs, prev_line>>

\* GDALTrajectoryReader::get_num_trajectories
GdalGetNumTrajectories ==
  /\ reader = "GDALTrajectoryReader"
  /\ status = "ready"
  /\ ret' = [NoRet EXCEPT !.op = "get_num_trajectories",
                          !.id = gdal.NUM_FEATURES]
  /\ UNCHANGED <<Schema, ifs, prev_line>>

\* GDALTrajectoryReader::read_next_trajectory.  With no feature left
\* GetNextFeature returns NULL, which is dereferenced, and on a closed
\* dataset the layer is gone: undefined behaviour, which ends the program or
\* goes on with a trajectory of no content.
GdalReadNextTrajectory ==
  /\ reader = "GDALTrajectoryReader"
  /\ status = "ready"
  /\ IF gdal.poDS = "open" /\ gdal.cursor < gdal.NUM_FEATURES
     THEN /\ ret' = [NoRet EXCEPT !.op = "read_next_trajectory",
                       !.kind = "value",
                       !.id = GdalFeature(file[gdal.cursor + 2]).id,
                       !.points = GdalFeature(file[gdal.cursor + 2]).points]
          /\ gdal' = [gdal EXCEPT !.cursor = gdal.cursor + 1]
          /\ status' = status
     ELSE \/ /\ ret' = [NoRet EXCEPT !.op = "read_next_trajectory",
                                     !.kind = "crash"]
             /\ status' = "crashed"
             /\ gdal' = gdal
          \/ /\ gdal.cursor <= MaxRows
             /\ ret' = [NoRet EXCEPT !.op = "read_next_trajectory",
                                     !.kind = "value"]
             /\ gdal' = [gdal EXCEPT !.cursor = gdal.cursor + 1]
             /\ status' = status
  /\ UNCHANGED <<file, reader, id_idx, geom_idx, x_idx, y_idx, time_idx, ifs,
                 prev_line>>

\* GDALTrajectoryReader::close: GDALClose(poDS), poDS left as it is.  A
\* second call releases the dataset again: undefined behaviour, which ends
\* the program or passes unnoticed.
GdalClose ==
  /\ reader = "GDALTrajectoryReader"
  /\ status = "ready"
  /\ IF gdal.poDS = "open"
     THEN /\ gdal' = [gdal EXCEPT !.poDS = "closed"]
          /\ ret' = [NoRet EXCEPT !.op = "close"]
          /\ status' = status
     ELSE \/ /\ ret' = [NoRet EXCEPT !.op = "close", !.kind = "crash"]
             /\ status' = "crashed"
             /\ gdal' = gdal
          \/ /\ ret' = [NoRet EXCEPT !.op = "close"]
             /\ status' = status
             /\ gdal' = gdal
  /\ UNCHANGED <<file, reader, id_idx, geom_idx, x_idx, y_idx, time_idx, ifs,
                 prev_line>>

NextGdal ==
  \/ GdalConstruct /\ UNCHANGED hist
  \/ GdalHasNext /\ UNCHANGED hist
  \/ GdalGetNumTrajectories /\ UNCHANGED hist
  \/ GdalReadNextTrajectory /\ UNCHANGED hist
  \/ GdalClose /\ UNCHANGED hist

\* ------------------------------------------------------------ all readers
\* any of the three readers under any calls; the point-stream reader on
\* files with all four columns whose rows are a record of each id and a
\* record whose time is no number
FewRowLines ==
  { <<"1", ",", "0", ",", "0", ",", "1">>,
    <<"1", ",", "1", "a", ",", "1", ",", "a">>,
    <<"2", ",", "5", ",", "5", ",", "5">> }

InitPoint ==
  /\ file \in Files({<<"i", ",", "x", ",", "y", ",", "t">>}, FewRowLines)
  /\ InitReader

InitReaders == InitPoint \/ InitWholeRow \/ InitGdal

NextReaders == Next \/ NextWholeRow \/ NextGdal

SpecReaders == InitReaders /\ [][NextReaders]_vars

\* ------------------------------------------------------------------ claims
Rows == Tail(file)

ReadOps == {"read_next_trajectory", "read_next_temporal_trajectory"}

IsNumeral(s) == s # <<>> /\ \A k \in 1..Len(s) : s[k] \in Digits

\* a data row all of whose fields are numerals, at least id, x and y
AllNumeric(line) ==
  /\ Len(Tokenize(line)) >= 3
  /\ \A k \in 1..Len(Tokenize(line)) : IsNumeral(Tokenize(line)[k])

\* a file whose data rows are all numeric
CleanFile == \A k \in 1..Len(Rows) : AllNumeric(Rows[k])

RecOf(line) == ParseFields(Tokenize(line), 0, Record0)

\* the maximal runs of consecutive records with one identifier
RECURSIVE RunsOf(_)
RunsOf(lines) ==
  IF lines = <<>> THEN <<>>
  ELSE LET r == RecOf(Head(lines))
           rest == RunsOf(Tail(lines))
       IN IF rest # <<>> /\ rest[1].id = r.id
          THEN <<[id |-> r.id, points |-> <<(<<r.x, r.y>>)>> \o rest[1].points]>>
               \o Tail(rest)
          ELSE <<[id |-> r.id, points |-> <<(<<r.x, r.y>>)>>]>> \o rest

PointsOf(list) == [k \in 1..Len(list) |-> list[k].points]

\* C1: a drain made right after construction, on a file whose rows are all
\* numeric, returns one trajectory per maximal run of one identifier, whose
\* point sequences are the runs' point sequences in input order (so that
\* every input point is emitted once, the last row's too).
C1_DrainYieldsEveryRun ==
  ( /\ Len(hist) >= 2
    /\ hist[1].op = "construct"
    /\ hist[2].op = "read_all_trajectories"
    /\ CleanFile )
  => /\ hist[2].kind = "value"
     /\ PointsOf(hist[2].list) = PointsOf(RunsOf(Rows))

\* C2: a trajectory returned by read_next_trajectory or
\* read_next_temporal_trajectory carries the identifier of the records its
\* points come from: every point of it is the point of some row of the file
\* that has the returned identifier (stated for files of numeric rows).
C2_TaggedWithOwnIdentifier ==
  (CleanFile /\ ret.op \in ReadOps /\ ret.kind = "value")
  => \A k \in 1..Len(ret.points) :
       \E j \in 1..Len(Rows) :
         /\ RecOf(Rows[j]).ok
         /\ <<RecOf(Rows[j]).x, RecOf(Rows[j]).y>> = ret.points[k]
         /\ RecOf(Rows[j]).id = ret.id

\* C3: on an open reader has_next_feature() returns false exactly when no
\* unread record is left in the source and the pending buffer is empty
\* (stated for files of numeric rows).
C3_HasNextCountsPending ==
  (CleanFile /\ status = "ready" /\ ret.op = "has_next_feature" /\ ifs.is_open)
  => (ret.flag = FALSE <=> (ifs.pos >= Len(file) /\ prev_line = <<>>))

\* C4: a read_next_trajectory or read_next_temporal_trajectory call made
\* while has_next_feature() is false does not return a trajectory.
C4_ExhaustedReadFails ==
  [][ ( /\ status = "ready"
        /\ ~HasNextFeature(ifs).value
        /\ ret'.op \in ReadOps )
      => ret'.kind # "value" ]_vars

\* C5: construct, drain, reset_cursor, drain: the second drain returns the
\* trajectories of the first (stated for files of numeric rows).
C5_ResetReproducesDrain ==
  ( /\ CleanFile
    /\ Len(hist) = 4
    /\ hist[1].op = "construct"
    /\ hist[2].op = "read_all_trajectories"
    /\ hist[3].op = "reset_cursor"
    /\ hist[4].op = "read_all_trajectories" )
  => /\ hist[4].kind = hist[2].kind
     /\ hist[4].list = hist[2].list

\* C6: a TemporalTrajectory returned by read_next_temporal_trajectory has as
\* many timestamps as points when the time column was resolved, and no
\* timestamp at all when it was not.
C6_TimestampsParallelToPoints ==
  (ret.op = "read_next_temporal_trajectory" /\ ret.kind = "value")
  => IF has_time_stamp
     THEN Len(ret.timestamps) = Len(ret.points)
     ELSE ret.timestamps = <<>>

\* a temporal read with a time column that returned two points and stopped
\* at a look-ahead record
C6_Witness ==
  /\ ret.op = "read_next_temporal_trajectory" /\ ret.kind = "value"
  /\ has_time_stamp
  /\ Len(ret.points) = 2 /\ Len(ret.timestamps) = 2
  /\ prev_line # <<>>

\* what successive read_next_trajectory calls, each made while
\* has_next_feature() is true, return from reader state s: the trajectories
\* up to exhaustion or to the first call that throws, and the reader state
\* after each
RECURSIVE Successive(_, _, _)
Successive(s, list, after) ==
  LET h == HasNextFeature(s.ifs)
  IN IF ~h.value THEN [threw |-> FALSE, list |-> list, after |-> after]
     ELSE LET r == read_next_trajectory([s EXCEPT !.ifs = h.ifs])
          IN IF r.kind = "throw"
             THEN [threw |-> TRUE, list |-> list, after |-> after]
             ELSE Successive(r.s, Append(list, Traj(r)), Append(after, r.s))

\* C7: read_next_N_trajectories(N) returns the first min(N, k) of the k
\* trajectories that successive read_next_trajectory calls would return and
\* leaves the reader where those calls leave it; nothing for N <= 0; no
\* trajectory of a call made on an exhausted source; and it throws only
\* when one of those calls throws.
C7_ReadNextNIsPrefixOfDrain ==
  [][ (status = "ready" /\ ret'.op = "read_next_N_trajectories")
      => LET N == ret'.id
             d == Successive(Cur, <<>>, <<>>)
             k == Len(d.list)
             m == IF N <= 0 THEN 0 ELSE IF N <= k THEN N ELSE k
         IN IF d.threw /\ N > k
            THEN ret'.kind = "throw"
            ELSE /\ ret'.kind = "value"
                 /\ ret'.list = SubSeq(d.list, 1, m)
                 /\ \A j \in 1..Len(ret'.list) : ret'.list[j].points # <<>>
                 /\ prev_line' = IF m = 0 THEN prev_line
                                 ELSE d.after[m].prev_line
                 /\ ifs'.pos = IF m = 0 THEN ifs.pos ELSE d.after[m].ifs.pos ]_vars

\* read_next_N_trajectories(1) returned one trajectory and more remain
C7_Witness ==
  /\ ret.op = "read_next_N_trajectories" /\ ret.kind = "value"
  /\ ret.id = 1 /\ Len(ret.list) = 1
  /\ HasNextFeature(ifs).value

\* C8: when read_all_trajectories returns, has_next_feature() is false and
\* no record is left unread in the source or held in the pending buffer
\* (stated for files of numeric rows).
C8_ReadAllLeavesNothing ==
  ( /\ CleanFile /\ status = "ready" /\ ifs.is_open
    /\ ret.op = "read_all_trajectories" /\ ret.kind = "value" )
  => /\ ~HasNextFeature(ifs).value
     /\ ifs.pos >= Len(file)
     /\ prev_line = <<>>

Header == file[1]

\* no field of the header is `name`
Lacks(name) ==
  \A k \in 1..Len(Tokenize(Header)) : Tokenize(Header)[k] # name

\* C9: construction ends in the fatal exit exactly when the header lacks the
\* id, x or y column (a missing time column alone does not), and then at
\* most the header line has been taken from the source.
C9_MissingRequiredColumnIsFatal ==
  status # "new"
  => /\ status = "exited"
          <=> (Lacks(id_name) \/ Lacks(x_name) \/ Lacks(y_name))
     /\ status = "exited"
          => (ifs.pos <= 1 /\ prev_line = <<>> /\ ret.kind = "exit")
     /\ (status = "ready" /\ Lacks(time_name)) => ~has_time_stamp

\* a file with data rows whose header has id and y but no x: fatal exit
C9_Witness ==
  /\ status = "exited"
  /\ Lacks(x_name) /\ ~Lacks(id_name) /\ ~Lacks(y_name)
  /\ Len(file) > 1

\* a record one of whose schema fields does not start with a numeral (time
\* counts for the temporal variant only)
Malformed(line, temporal) ==
  LET toks == Tokenize(line)
      bad(idx) == /\ idx >= 0 /\ idx < Len(toks)
                  /\ (toks[idx + 1] = <<>> \/ toks[idx + 1][1] \notin Digits)
  IN bad(id_idx) \/ bad(x_idx) \/ bad(y_idx) \/ (temporal /\ bad(time_idx))

C11_CloseIsFinal ==
  [][ /\ (status = "ready" /\ ~ifs.is_open /\ ret'.op = "close")
         => (~ifs'.is_open /\ ifs'.pos = ifs.pos /\ prev_line' = prev_line)
      /\ (status = "ready" /\ ~ifs.is_open /\ ret'.op \in ReadOps)
         => ret'.kind # "value" ]_vars

\* the number written in field idx of a line
FieldValue(line, idx) == Decimal(Tokenize(line)[idx + 1])

\* the stream of a reader just constructed or just reset: past the header
JustPastHeader ==
  [pos |-> 1, eofbit |-> FALSE, failbit |-> FALSE, is_open |-> TRUE]

\* C12: on a file with one data row, numeric, a read_next_* call made with
\* the source just past the header returns one trajectory whose only point
\* is the row's point and whose id is the row's id; read_all_trajectories
\* returns that trajectory alone; after either has_next_feature() is false
\* and no record is pending.
C12_SingleRowSingleTrajectory ==
  [][ ( /\ status = "ready"
        /\ Len(Rows) = 1 /\ AllNumeric(Rows[1])
        /\ ifs = JustPastHeader /\ prev_line = <<>>
        /\ ret'.op \in ReadOps \cup {"read_all_trajectories"} )
      => LET id == FieldValue(Rows[1], id_idx)
             pt == <<FieldValue(Rows[1], x_idx), FieldValue(Rows[1], y_idx)>>
         IN /\ ret'.kind = "value"
            /\ ret'.op \in ReadOps
                 => (ret'.id = id /\ ret'.points = <<pt>>)
            /\ ret'.op = "read_all_trajectories"
                 => ret'.list = <<[id |-> id, points |-> <<pt>>]>>
            /\ ~HasNextFeature(ifs').value
            /\ prev_line' = <<>> ]_vars

\* the only row of the file was read into a one-point trajectory
C12_Witness ==
  /\ status = "ready"
  /\ Len(Rows) = 1 /\ AllNumeric(Rows[1])
  /\ ret.op = "read_next_trajectory" /\ ret.kind = "value"
  /\ Len(ret.points) = 1
  /\ ifs.pos = 2

\* C13: after reset_cursor() on an open reader the pending buffer is empty
\* and the next read_next_trajectory returns what it returns right after
\* construction (stated for files of numeric rows).
C13_ResetClearsPending ==
  (status = "ready" /\ CleanFile /\ ret.op = "reset_cursor" /\ ifs.is_open)
  => /\ prev_line = <<>>
     /\ LET now == read_next_trajectory(Cur)
            first == read_next_trajectory(
                       [ifs |-> JustPastHeader, prev_line |-> <<>>])
        IN now.kind = first.kind /\ Traj(now) = Traj(first)

\* C14: the pending buffer is empty after construction; when a read_next_*
\* call returns with a record pending, that record is the last line taken
\* from the source and its id differs from the id of the line before it; a
\* read_next_* call made while a record is pending takes it as the first
\* record of the trajectory it returns (stated for files of numeric rows
\* and an open reader).
C14_PendingLifecycle ==
  [][ /\ ret'.op = "construct" => prev_line' = <<>>
      /\ (status = "ready" /\ CleanFile /\ ifs.is_open /\ ret'.op \in ReadOps)
         => /\ prev_line' # <<>>
                 => /\ ifs'.pos > ifs.pos
                    /\ prev_line' = file[ifs'.pos]
                    /\ ifs'.pos >= 3
                    /\ RecOf(file[ifs'.pos]).id # RecOf(file[ifs'.pos - 1]).id
            /\ prev_line # <<>>
                 => /\ ret'.kind = "value"
                    /\ ret'.points # <<>>
                    /\ ret'.points[1]
                         = <<RecOf(prev_line).x, RecOf(prev_line).y>>
                    /\ prev_line' # <<>> => ifs'.pos > ifs.pos ]_vars

\* some id occurs in two runs with a record of another id between them
SeparatedRuns ==
  \E a, b, c \in 1..Len(Rows) :
    /\ a < b /\ b < c
    /\ RecOf(Rows[a]).id = RecOf(Rows[c]).id
    /\ RecOf(Rows[a]).id # RecOf(Rows[b]).id

\* C15: a drain made right after construction, on a file of numeric rows
\* in which an id comes back after records of another id, returns as many
\* trajectories as the file has maximal runs, and each returned trajectory
\* holds the points of one run only.
C15_SeparatedRunsStaySeparate ==
  ( /\ Len(hist) >= 2
    /\ hist[1].op = "construct"
    /\ hist[2].op = "read_all_trajectories"
    /\ CleanFile /\ SeparatedRuns )
  => /\ hist[2].kind = "value"
     /\ Len(hist[2].list) = Len(RunsOf(Rows))
     /\ \A k \in 1..Len(hist[2].list) :
          \E j \in 1..Len(RunsOf(Rows)) :
            hist[2].list[k].points = RunsOf(Rows)[j].points

\* the outcome of a read_next_* call as far as geometry goes
Geometry(r) ==
  [kind |-> r.kind, id |-> r.id, points |-> r.points,
   pos |-> r.s.ifs.pos, prev_line |-> r.s.prev_line]

\* a record whose time field, at the resolved time index, is no number
TimeBad(line) ==
  /\ has_time_stamp
  /\ time_idx < Len(Tokenize(line))
  /\ NumPrefix(Tokenize(line)[time_idx + 1]) = <<>>

\* C16 as stated: in every state of a constructed reader the two variants,
\* each run from that state, end alike, return the same id and points and
\* leave the same source position and pending buffer.
C16_VariantsAgreeOnGeometry ==
  status = "ready"
  => Geometry(read_next_trajectory(Cur))
       = Geometry(read_next_temporal_trajectory(Cur))

\* C16 amended: the same, on input none of whose records has a time field
\* that is no number.
C16_VariantsAgreeWhereTimeParses ==
  (status = "ready" /\ \A k \in 1..Len(Rows) : ~TimeBad(Rows[k]))
  => Geometry(read_next_trajectory(Cur))
       = Geometry(read_next_temporal_trajectory(Cur))

\* a temporal read left a record pending on a file with a time column all
\* of whose time fields parse, and either variant would now return a
\* trajectory that starts with it
C16_Witness ==
  /\ status = "ready" /\ has_time_stamp
  /\ \A k \in 1..Len(Rows) : ~TimeBad(Rows[k])
  /\ ret.op = "read_next_temporal_trajectory" /\ ret.kind = "value"
  /\ prev_line # <<>>
  /\ read_next_trajectory(Cur).kind = "value"
  /\ read_next_trajectory(Cur).points # <<>>

\* idx is the index of the first header token equal to name, NotFound when
\* no token equals it
ResolvedToFirst(idx, name) ==
  LET toks == Tokenize(Header)
  IN IF Lacks(name) THEN idx = NotFound
     ELSE /\ idx \in 0..(Len(toks) - 1)
          /\ toks[idx + 1] = name
          /\ \A j \in 1..idx : toks[j] # name

\* idx is the index of the last header token equal to name, NotFound when
\* no token equals it
ResolvedToLast(idx, name) ==
  LET toks == Tokenize(Header)
  IN IF Lacks(name) THEN idx = NotFound
     ELSE /\ idx \in 0..(Len(toks) - 1)
          /\ toks[idx + 1] = name
          /\ \A j \in (idx + 2)..Len(toks) : toks[j] # name

\* C17 as stated: construction leaves each of id, x, y and time at the
\* index of the first header token equal to its column name, letter case
\* counting (NotFound without such a token).
C17_FirstMatchingTokenWins ==
  status # "new"
  => /\ ResolvedToFirst(id_idx, id_name)
     /\ ResolvedToFirst(x_idx, x_name)
     /\ ResolvedToFirst(y_idx, y_name)
     /\ ResolvedToFirst(time_idx, time_name)

\* C17 amended: construction leaves each role at the index of the last
\* header token equal to its column name, letter case counting (NotFound
\* without such a token).
C17_LastMatchingTokenWins ==
  status # "new"
  => /\ ResolvedToLast(id_idx, id_name)
     /\ ResolvedToLast(x_idx, x_name)
     /\ ResolvedToLast(y_idx, y_name)
     /\ ResolvedToLast(time_idx, time_name)

\* the header names x in two columns and a record was read whose x comes
\* from the later of them, the two columns holding different numbers
C17_Witness ==
  /\ status = "ready"
  /\ Cardinality({k \in 1..Len(Tokenize(Header)) :
                    Tokenize(Header)[k] = x_name}) = 2
  /\ ret.op = "read_next_trajectory" /\ ret.kind = "value"
  /\ Len(ret.points) = 1
  /\ ret.points[1][1] = FieldValue(Rows[1], x_idx)
  /\ \E f \in 0..(Len(Tokenize(Header)) - 1) :
       /\ ResolvedToFirst(f, x_name)
       /\ ret.points[1][1] # FieldValue(Rows[1], f)

NumDelims(line) == Cardinality({k \in 1..Len(line) : line[k] = Delim})

EndsWithDelim(line) == line # <<>> /\ line[Len(line)] = Delim

\* C18: every line the reader has taken from the source was split into one
\* field more than it has delimiters; and a temporal read of a record that
\* ends with the delimiter, the field after it being the time field, sees
\* the empty time field and throws.
C18_TrailingEmptyFieldKept ==
  /\ \A k \in 1..ifs.pos : Len(Tokenize(file[k])) = NumDelims(file[k]) + 1
  /\ ( /\ status = "ready" /\ has_time_stamp
       /\ ret.op = "read_next_temporal_trajectory"
       /\ ifs.pos = 2
       /\ EndsWithDelim(file[2])
       /\ time_idx = NumDelims(file[2]) )
     => ret.kind = "throw"

\* a row of the whole-row file with a numeric id field and a geometry field
\* that is a linestring, and nothing else
WellFormedRow(line) ==
  /\ Len(Tokenize(line)) = 2
  /\ IsNumeral(Tokenize(line)[id_idx + 1])
  /\ ReadWkt(Tokenize(line)[geom_idx + 1]).ok

\* the trajectory written in a well-formed row
RowTrajectory(line) ==
  [id |-> FieldValue(line, id_idx),
   points |-> ReadWkt(Tokenize(line)[geom_idx + 1]).points]

\* C19: on an open CSVTrajectoryReader, a read_next_trajectory call made
\* while lines are left takes exactly the next line and, the line being
\* well formed, returns the trajectory written in it; has_next_feature()
\* is true exactly when lines are left; and a drain made right after
\* construction or right after reset_cursor(), on a file whose n rows are
\* all well formed, returns the n rows' trajectories in row order and
\* leaves nothing unread.
C19_WholeRowReaderOneLinePerCall ==
  [][ (reader = "CSVTrajectoryReader" /\ status = "ready" /\ ifs.is_open)
      => /\ (ret'.op = "read_next_trajectory" /\ ifs.pos < Len(file))
            => /\ ifs'.pos = ifs.pos + 1
               /\ WellFormedRow(file[ifs'.pos])
                    => /\ ret'.kind = "value"
                       /\ Traj(ret') = RowTrajectory(file[ifs'.pos])
         /\ ret'.op = "has_next_feature"
            => (ret'.flag <=> ifs.pos < Len(file))
         /\ ( /\ ret'.op = "read_all_trajectories"
              /\ ret.op \in {"construct", "reset_cursor"}
              /\ \A k \in 1..Len(Rows) : WellFormedRow(Rows[k]) )
            => /\ ret'.kind = "value"
               /\ ret'.list = [k \in 1..Len(Rows) |-> RowTrajectory(Rows[k])]
               /\ ifs'.pos = Len(file) ]_vars

\* a file of two or more well-formed rows was drained, reset and drained
\* again, with the same trajectories, one per row
C19_Witness ==
  /\ reader = "CSVTrajectoryReader"
  /\ Len(hist) = 4
  /\ hist[2].op = "read_all_trajectories" /\ hist[2].kind = "value"
  /\ hist[3].op = "reset_cursor"
  /\ hist[4].op = "read_all_trajectories" /\ hist[4].kind = "value"
  /\ hist[4].list = hist[2].list
  /\ Len(hist[4].list) = Len(Rows)
  /\ Len(Rows) >= 2
  /\ hist[4].list[1] # hist[4].list[2]

\* the streams that differ from f in the two state bits at most and on which
\* has_next_feature() answers as on f
SameButFlags(f) ==
  {v \in [pos : {f.pos}, is_open : {f.is_open},
          eofbit : BOOLEAN, failbit : BOOLEAN] :
     HasNextFeature(v).value = HasNextFeature(f).value}

\* what a caller can find out about a stream: where it stands, whether it
\* is open, and the answer of has_next_feature()
Visible(f) ==
  [pos |-> f.pos, is_open |-> f.is_open, more |-> HasNextFeature(f).value]

\* the outcome, as a caller sees it, of each call of the point-stream
\* reader made with stream f and the present pending buffer
PointOutcomes(f) ==
  LET s == [ifs |-> f, prev_line |-> prev_line]
      one(r) == [kind |-> r.kind, id |-> r.id, points |-> r.points,
                 timestamps |-> r.timestamps, prev_line |-> r.s.prev_line,
                 ifs |-> Visible(r.s.ifs)]
      many(r) == [kind |-> r.kind, list |-> r.list,
                  prev_line |-> r.s.prev_line, ifs |-> Visible(r.s.ifs)]
  IN << one(read_next_trajectory(s)),
        one(read_next_temporal_trajectory(s)),
        many(read_all_trajectories(s)),
        [N \in -1..MaxN |-> many(read_next_N_trajectories(s, N))],
        Visible(reset_cursor(s).ifs), reset_cursor(s).prev_line,
        Visible(close(s).ifs), close(s).prev_line >>

\* the same for the whole-row reader
WholeRowOutcomes(f) ==
  LET one(r) == [kind |-> r.kind, id |-> r.id, points |-> r.points,
                 ifs |-> Visible(r.ifs)]
      many(r) == [kind |-> r.kind, list |-> r.list, ifs |-> Visible(r.ifs)]
  IN << one(CSVTrajectoryReader_read_next_trajectory(f)),
        many(CSVTrajectoryReader_ReadAllLoop(f, <<>>)),
        [N \in -1..MaxN |-> many(CSVTrajectoryReader_ReadNLoop(f, N, 0, <<>>))],
        Visible(CSVTrajectoryReader_reset_cursor(f)),
        Visible(CSVTrajectoryReader_close(f)) >>

\* C20: on each of the three readers a has_next_feature() call leaves the
\* source position, the pending buffer, the schema and the dataset cursor
\* as they were and would give the same answer if repeated; the state bits
\* of the stream, all it may change, have no bearing on what any later call
\* returns or on where it leaves the source.
C20_HasNextIsPureQuery ==
  [][ ret'.op = "has_next_feature"
      => /\ ifs'.pos = ifs.pos /\ ifs'.is_open = ifs.is_open
         /\ prev_line' = prev_line
         /\ Schema' = Schema
         /\ reader = "GDALTrajectoryReader"
              => (ifs' = ifs /\ ret'.flag = (gdal.cursor < gdal.NUM_FEATURES))
         /\ reader # "GDALTrajectoryReader"
              => /\ ifs' \in SameButFlags(ifs)
                 /\ ret'.flag = HasNextFeature(ifs').value
         /\ reader = "CSVTemporalPointReader"
              => \A v \in SameButFlags(ifs) :
                   PointOutcomes(v) = PointOutcomes(ifs)
         /\ reader = "CSVTrajectoryReader"
              => \A v \in SameButFlags(ifs) :
                   WholeRowOutcomes(v) = WholeRowOutcomes(ifs) ]_vars

\* has_next_feature() was called on a point-stream reader with a record
\* pending and nothing left in the file, which set eofbit
C20_Witness ==
  /\ reader = "CSVTemporalPointReader"
  /\ ret.op = "has_next_feature" /\ ~ret.flag
  /\ prev_line # <<>>
  /\ ifs.is_open /\ ifs.eofbit

====
